---- MODULE Spec2Model ----
(***************************************************************************)
(* Model of the vegetation-index batch processor.                          *)
(*                                                                         *)
(*   src/indices/index_calculations.py  the band-math formulas             *)
(*   src/process_all_scenes.py          load_band, save_index,             *)
(*                                      process_scene, save_summary and    *)
(*                                      the "Run Batch" top-level script   *)
(*                                                                         *)
(* Three specifications share the variables:                               *)
(*   SpecMath   applies the formulas to small grids;                       *)
(*   SpecScene  runs process_scene on one scene, statement by statement;   *)
(*   SpecBatch  runs the whole script: dispatch, worker pool, collection   *)
(*              and the summary.                                           *)
(***************************************************************************)
EXTENDS Integers, Sequences, FiniteSets, TLC

(***************************************************************************)
(* Bounds of the model.                                                    *)
(***************************************************************************)
\* Grids have at most MaxCells cells; their values are k/2, |k| <= MaxNum.
MaxCells == 2
MaxNum == 1
\* At most MaxScenes scene folders under the input root.
MaxScenes == 2
\* At most MaxCorrupt band files of a scene exist but cannot be read.
MaxCorrupt == 1
\* At most MaxDiskFaults index files of a scene cannot be written.
MaxDiskFaults == 1
\* time.time() - start_time, rounded, is one of 0..MaxElapsed.
MaxElapsed == 1

VARIABLES
  \* ---- index_calculations.py: the operands and the result of one formula
  gridA, gridB, gridOut, mathOp,
  \* ---- the environment of a run (files, disk, command line)
  SELECTED_INDICES,   \* args.indices or all eight, as a set
  fileState,          \* fileState[s][b]: "missing" | "ok" | "corrupt"
  diskOK,             \* diskOK[s][i]: rasterio can write <out>/<s>/<i>.tif
  faulty,             \* faulty[s]: process_scene(s) raises outside its try block
                      \* (lines 81-98: e.g. MemoryError), the case line 159 handles
  elapsedEnv,         \* elapsedEnv[s]: what round(elapsed, 2) will be
  outRootExists,      \* the directory OUTPUT_ROOT exists
  \* ---- process_scene, one activation per scene
  pc,                 \* "idle" | "start" | "compute" | "finish" | "returned" | "raised"
  ix,                 \* position of the next "if" statement of the try block
  bands,              \* bands[s][b]: "absent" (no key) | "array" | "None"
  profile,            \* "None" or the band whose src.profile it is
  results,            \* results[s][i]: "absent" (no key) | "True" | "False"
  time_sec,           \* results["time_sec"]
  computeArgs,        \* computeArgs[s][i]: the bands handed to calculate_<i>
  saveProfile,        \* saveProfile[s][i]: "nocall" or the profile handed to save_index
  raisedAt,           \* the index whose statement raised into the except block
  written,            \* the set of <<s, i>> whose .tif was written
  doneOrder,          \* the scenes whose call has returned or raised, in that order
  writeLog,           \* who has written what: records [task, kind, scene, index]
  \* ---- the Run Batch script
  mainpc,             \* "start" | "seq" | "submit" | "collect" | "summary" | "done" | "aborted" | "unit"
  scene_folders,      \* number of scene folders: the scenes are 1..scene_folders
  preFinished,        \* the futures as_completed found finished when it began
  collected,          \* futures already yielded by as_completed
  all_results,        \* the list all_results
  summaryCalls,       \* number of calls of save_summary
  summary             \* the rows of the summary file, <<"nofile">> before it exists

mathVars == <<gridA, gridB, gridOut, mathOp>>
envVars == <<SELECTED_INDICES, fileState, diskOK, faulty, elapsedEnv>>
sceneVars == <<pc, ix, bands, profile, results, time_sec, computeArgs, saveProfile,
               raisedAt, written, outRootExists, doneOrder>>
mainVars == <<mainpc, scene_folders, preFinished, collected, all_results, summaryCalls,
              summary>>
vars == <<mathVars, envVars, sceneVars, mainVars, writeLog>>

(***************************************************************************)
(* index_calculations.py                                                   *)
(*                                                                         *)
(* A float is a record: kind "fin" with the reduced fraction n/d, or one   *)
(* of the IEEE specials "nan", "pinf", "ninf" (n = 0, d = 1 then).         *)
(* Rounding to float32 and the sign of zero are not modelled.              *)
(***************************************************************************)
Abs(x) == IF x < 0 THEN -x ELSE x

RECURSIVE GCD(_, _)
GCD(a, b) == IF b = 0 THEN a ELSE GCD(b, a % b)

Fin(n, d) ==
  LET g == GCD(Abs(n), Abs(d))
      s == IF d < 0 THEN -1 ELSE 1
  IN  [kind |-> "fin", n |-> (s * n) \div g, d |-> (s * d) \div g]

NaN == [kind |-> "nan", n |-> 0, d |-> 1]
PosInf == [kind |-> "pinf", n |-> 0, d |-> 1]
NegInf == [kind |-> "ninf", n |-> 0, d |-> 1]

IsFin(x) == x.kind = "fin"
isnan(x) == x.kind = "nan"
isinf(x) == x.kind \in {"pinf", "ninf"}
Sign(x) == IF x.kind = "pinf" THEN 1
           ELSE IF x.kind = "ninf" THEN -1
           ELSE IF x.n > 0 THEN 1 ELSE IF x.n < 0 THEN -1 ELSE 0
Signed(s) == IF s > 0 THEN PosInf ELSE NegInf

\* x / y of two floats under np.errstate(divide='ignore', invalid='ignore'):
\* no exception, the IEEE result.
FloatDiv(x, y) ==
  IF isnan(x) \/ isnan(y) THEN NaN
  ELSE IF isinf(x) THEN (IF isinf(y) THEN NaN
                         ELSE Signed(Sign(x) * (IF Sign(y) < 0 THEN -1 ELSE 1)))
  ELSE IF isinf(y) THEN Fin(0, 1)
  ELSE IF y.n = 0 THEN (IF x.n = 0 THEN NaN ELSE Signed(Sign(x)))
  ELSE Fin(x.n * y.d, x.d * y.n)

FloatAdd(x, y) ==
  IF isnan(x) \/ isnan(y) THEN NaN
  ELSE IF isinf(x) THEN (IF isinf(y) /\ y.kind # x.kind THEN NaN ELSE x)
  ELSE IF isinf(y) THEN y
  ELSE Fin(x.n * y.d + y.n * x.d, x.d * y.d)

FloatNeg(x) ==
  IF isnan(x) THEN NaN
  ELSE IF isinf(x) THEN Signed(-Sign(x))
  ELSE Fin(-x.n, x.d)

FloatSub(x, y) == FloatAdd(x, FloatNeg(y))

\* elementwise operations of numpy on equal-shaped grids
GridDiv(a, b) == [p \in DOMAIN a |-> FloatDiv(a[p], b[p])]
GridAdd(a, b) == [p \in DOMAIN a |-> FloatAdd(a[p], b[p])]
GridSub(a, b) == [p \in DOMAIN a |-> FloatSub(a[p], b[p])]
GridSubScalar(a, k) == [p \in DOMAIN a |-> FloatSub(a[p], Fin(k, 1))]

\* safe_divide without line 6: the NaN of 0/0 stays in the result
safe_divide_keeps_nan(numerator, denominator) == GridDiv(numerator, denominator)

\* result = numerator / denominator; result[np.isnan(result)] = 0
safe_divide(numerator, denominator) ==
  LET result == GridDiv(numerator, denominator)
  IN  [p \in DOMAIN result |-> IF isnan(result[p]) THEN Fin(0, 1) ELSE result[p]]

calculate_ndvi(nir, red) == safe_divide(GridSub(nir, red), GridAdd(nir, red))

calculate_gci(nir, green) == GridSubScalar(safe_divide(nir, green), 1)

\* the inputs: equal-shaped grids of finite values
Shapes == {sh \in (1..MaxCells) \X (1..MaxCells) : sh[1] * sh[2] <= MaxCells}
Cells(sh) == (1..sh[1]) \X (1..sh[2])
InputValues == {Fin(k, 2) : k \in (-MaxNum)..MaxNum}
NoGrid == [p \in {} |-> NaN]

(***************************************************************************)
(* process_all_scenes.py: tables                                           *)
(***************************************************************************)
\* band_files, in the insertion order the load loop iterates it
band_files == <<"B2", "B3", "B4", "B5", "B6", "B7">>
BandNames == {band_files[k] : k \in DOMAIN band_files}

\* the order of the "if" statements of the try block
IndexOrder == <<"NDVI", "SAVI", "EVI", "ARVI", "NBR", "NBWI", "NDBI", "GCI">>
IndexNames == {IndexOrder[k] : k \in DOMAIN IndexOrder}

\* the set each "if" tests with issubset(bands)
RequiredBands(i) ==
  CASE i = "NDVI" -> {"B4", "B5"}
    [] i = "SAVI" -> {"B4", "B5"}
    [] i = "EVI"  -> {"B2", "B4", "B5"}
    [] i = "ARVI" -> {"B3", "B4", "B5"}
    [] i = "NBR"  -> {"B5", "B7"}
    [] i = "NBWI" -> {"B3", "B5"}
    [] i = "NDBI" -> {"B5", "B6"}
    [] i = "GCI"  -> {"B3", "B7"}

\* the bands each statement hands to calculate_<i>, in parameter order
FormulaArgs(i) ==
  CASE i = "NDVI" -> <<"B5", "B4">>
    [] i = "SAVI" -> <<"B5", "B4">>
    [] i = "EVI"  -> <<"B5", "B4", "B2">>
    [] i = "ARVI" -> <<"B5", "B4", "B3">>
    [] i = "NBR"  -> <<"B5", "B7">>
    [] i = "NBWI" -> <<"B3", "B5">>
    [] i = "NDBI" -> <<"B6", "B5">>
    [] i = "GCI"  -> <<"B7", "B3">>

SceneIds == 1..MaxScenes

(***************************************************************************)
(* load_band and the load loop of process_scene                            *)
(***************************************************************************)
\* load_band(path): (array, profile) of the file, or (None, None) when
\* rasterio raises
load_band(b, st) == IF st = "ok" THEN <<"array", b>> ELSE <<"None", "None">>

\* for band_key, filename in band_files.items(): ...
RECURSIVE LoadLoop(_, _, _, _)
LoadLoop(fs, k, bnds, prof) ==
  IF k > Len(band_files) THEN <<bnds, prof>>
  ELSE LET b == band_files[k]
       IN  IF fs[b] # "missing"
           THEN LET r == load_band(b, fs[b])
                IN  LoadLoop(fs, k + 1, [bnds EXCEPT ![b] = r[1]], r[2])
           ELSE LoadLoop(fs, k + 1, bnds, prof)

NoBands == [b \in BandNames |-> "absent"]
NoResults == [i \in IndexNames |-> "absent"]
NoArgs == [i \in IndexNames |-> <<>>]
NoCalls == [i \in IndexNames |-> "nocall"]

\* the keys of the dict bands
Keys(bnds) == {b \in BandNames : bnds[b] # "absent"}

(***************************************************************************)
(* save_index                                                              *)
(***************************************************************************)
\* save_index without its try/except: a failure leaves it as an exception
save_index_uncaught(prof, disk) == IF prof # "None" /\ disk THEN "True" ELSE "raise"

\* the value save_index returns: os.makedirs, then profile.update (which
\* raises on None), then the write; every exception is caught and gives False
save_index(prof, disk) == IF prof # "None" /\ disk THEN "True" ELSE "False"

\* where process_scene continues once save_index has returned r for the
\* statement at position k: the next statement, or the end of the try block
AfterSave(k, r) == IF k < Len(IndexOrder) THEN "compute" ELSE "finish"

(***************************************************************************)
(* process_scene, one action per statement                                 *)
(***************************************************************************)
\* the except block re-raising instead of logging
AfterRaiseReraise(k) == <<"raised", k>>
\* a try/except around each statement: the next statement still runs
AfterRaiseContinue(k) == <<IF k < Len(IndexOrder) THEN "compute" ELSE "finish", k + 1>>

\* lines 117-118: the except block logs and control leaves the try
\* statement; the statement at position k is not completed
AfterRaise(k) == <<"finish", k>>

\* the locals hoisted to module level: every activation uses one frame
SharedFrame(s) == 1

\* bands, profile and results are locals of process_scene (lines 85-87):
\* the activation for scene s has a frame of its own
Frame(s) == s

\* the thread of a scene task is the task's number; the main thread is 0
MainThread == 0
\* a write of thread w to a local of the activation for scene s
LocalWrite(w, kind, s) == [task |-> w, kind |-> kind, scene |-> Frame(s), index |-> "-"]
\* a write of thread w to os.path.join(OUTPUT_ROOT, scene_name, name + ".tif")
FileWrite(w, s, i) == [task |-> w, kind |-> "file", scene |-> s, index |-> i]
\* a write of thread w to the list all_results
ListWrite(w) == [task |-> w, kind |-> "all_results", scene |-> 0, index |-> "-"]

\* lines 81-98: the prologue and the load loop.  A fault outside the try
\* block leaves process_scene by an exception.
SceneStart(s) ==
  /\ pc[s] = "start"
  /\ IF faulty[s]
     THEN /\ pc' = [pc EXCEPT ![s] = "raised"]
          /\ doneOrder' = Append(doneOrder, s)
          /\ UNCHANGED <<bands, profile, results, time_sec, writeLog>>
     ELSE LET r == LoadLoop(fileState[s], 1, NoBands, "None")
          IN  /\ bands' = [bands EXCEPT ![Frame(s)] = r[1]]
              /\ profile' = [profile EXCEPT ![Frame(s)] = r[2]]
              /\ results' = [results EXCEPT ![Frame(s)] = NoResults]
              /\ time_sec' = [time_sec EXCEPT ![Frame(s)] = 0]
              /\ pc' = [pc EXCEPT ![s] = "compute"]
              /\ writeLog' = writeLog \cup {LocalWrite(s, "bands", s),
                                            LocalWrite(s, "profile", s),
                                            LocalWrite(s, "results", s)}
              /\ UNCHANGED doneOrder
  /\ UNCHANGED <<ix, computeArgs, saveProfile, raisedAt, written, outRootExists>>
  /\ UNCHANGED <<mathVars, envVars, mainVars>>

\* the conditions without their "and name in SELECTED_INDICES" half
GuardIgnoresSelection(s, i) == RequiredBands(i) \subseteq Keys(bands[Frame(s)])
Guard(s, i) == RequiredBands(i) \subseteq Keys(bands[Frame(s)]) /\ i \in SELECTED_INDICES
ArgBands(i) == {FormulaArgs(i)[k] : k \in DOMAIN FormulaArgs(i)}
\* arithmetic on None raises TypeError
ComputeRaises(s, i) == \E b \in ArgBands(i) : bands[Frame(s)][b] = "None"

\* an "if" whose condition is false
IndexSkip(s) ==
  /\ pc[s] = "compute"
  /\ ~Guard(s, IndexOrder[ix[s]])
  /\ pc' = [pc EXCEPT ![s] = IF ix[s] < Len(IndexOrder) THEN "compute" ELSE "finish"]
  /\ ix' = [ix EXCEPT ![s] = ix[s] + 1]
  /\ UNCHANGED <<bands, profile, results, time_sec, computeArgs, saveProfile, raisedAt,
                 written, outRootExists, doneOrder, writeLog>>
  /\ UNCHANGED <<mathVars, envVars, mainVars>>

\* an "if" whose formula raises: control goes to the except block, which
\* logs, and the rest of the try block is left out
IndexRaise(s) ==
  /\ pc[s] = "compute"
  /\ Guard(s, IndexOrder[ix[s]])
  /\ ComputeRaises(s, IndexOrder[ix[s]])
  /\ computeArgs' = [computeArgs EXCEPT ![s][IndexOrder[ix[s]]] = FormulaArgs(IndexOrder[ix[s]])]
  /\ raisedAt' = [raisedAt EXCEPT ![s] = IndexOrder[ix[s]]]
  /\ pc' = [pc EXCEPT ![s] = AfterRaise(ix[s])[1]]
  /\ ix' = [ix EXCEPT ![s] = AfterRaise(ix[s])[2]]
  /\ doneOrder' = IF AfterRaise(ix[s])[1] = "raised" THEN Append(doneOrder, s) ELSE doneOrder
  /\ UNCHANGED <<bands, profile, results, time_sec, saveProfile, written, outRootExists,
                 writeLog>>
  /\ UNCHANGED <<mathVars, envVars, mainVars>>

\* an "if" whose formula returns: results[i] = save_index(...)
IndexSave(s) ==
  LET i == IndexOrder[ix[s]]
      r == save_index(profile[Frame(s)], diskOK[s][i])
  IN  /\ pc[s] = "compute"
      /\ Guard(s, i)
      /\ ~ComputeRaises(s, i)
      /\ computeArgs' = [computeArgs EXCEPT ![s][i] = FormulaArgs(i)]
      /\ saveProfile' = [saveProfile EXCEPT ![s][i] = profile[Frame(s)]]
      /\ outRootExists' = TRUE
      /\ written' = IF r = "True" THEN written \cup {<<s, i>>} ELSE written
      /\ IF r \in {"True", "False"}
         THEN /\ results' = [results EXCEPT ![Frame(s)][i] = r]
              /\ pc' = [pc EXCEPT ![s] = AfterSave(ix[s], r)]
              /\ ix' = [ix EXCEPT ![s] = ix[s] + 1]
              /\ UNCHANGED raisedAt
         ELSE /\ raisedAt' = [raisedAt EXCEPT ![s] = i]
              /\ pc' = [pc EXCEPT ![s] = "finish"]
              /\ UNCHANGED <<results, ix>>
      /\ writeLog' = writeLog
                       \cup (IF r \in {"True", "False"} THEN {LocalWrite(s, "results", s)} ELSE {})
                       \cup (IF profile[Frame(s)] # "None"
                             THEN {LocalWrite(s, "profile", s), FileWrite(s, s, i)} ELSE {})
      /\ UNCHANGED <<bands, profile, time_sec, doneOrder>>
      /\ UNCHANGED <<mathVars, envVars, mainVars>>

\* lines 120-123
SceneFinish(s) ==
  /\ pc[s] = "finish"
  /\ time_sec' = [time_sec EXCEPT ![Frame(s)] = elapsedEnv[s]]
  /\ pc' = [pc EXCEPT ![s] = "returned"]
  /\ doneOrder' = Append(doneOrder, s)
  /\ writeLog' = writeLog \cup {LocalWrite(s, "results", s)}
  /\ UNCHANGED <<ix, bands, profile, results, computeArgs, saveProfile, raisedAt, written,
                 outRootExists>>
  /\ UNCHANGED <<mathVars, envVars, mainVars>>

\* the dict process_scene returns
SceneResult(s) ==
  [scene |-> s, index |-> results[Frame(s)], time_sec |-> time_sec[Frame(s)]]

(***************************************************************************)
(* Initial states                                                          *)
(***************************************************************************)
AllIndices == IndexNames
\* args.indices: all eight by default, or a list given on the command line
SelectionOptions ==
  {AllIndices, {"NDVI", "SAVI", "EVI"}, {"GCI", "ARVI", "NBR", "EVI"}}

FileStates ==
  {fs \in [BandNames -> {"missing", "ok", "corrupt"}] :
     Cardinality({b \in BandNames : fs[b] = "corrupt"}) <= MaxCorrupt}
DiskStates ==
  {d \in [IndexNames -> BOOLEAN] :
     Cardinality({i \in IndexNames : ~d[i]}) <= MaxDiskFaults}

AllOkFiles == [b \in BandNames |-> "ok"]
AllOkDisk == [i \in IndexNames |-> TRUE]

InitMathIdle ==
  /\ gridA = NoGrid /\ gridB = NoGrid /\ gridOut = NoGrid /\ mathOp = "none"

InitSceneLocals ==
  /\ ix = [s \in SceneIds |-> 1]
  /\ bands = [s \in SceneIds |-> NoBands]
  /\ profile = [s \in SceneIds |-> "None"]
  /\ results = [s \in SceneIds |-> NoResults]
  /\ time_sec = [s \in SceneIds |-> 0]
  /\ computeArgs = [s \in SceneIds |-> NoArgs]
  /\ saveProfile = [s \in SceneIds |-> NoCalls]
  /\ raisedAt = [s \in SceneIds |-> "none"]
  /\ written = {}
  /\ doneOrder = <<>>
  /\ writeLog = {}

InitMainIdle ==
  /\ preFinished = {}
  /\ collected = {}
  /\ all_results = <<>>
  /\ summaryCalls = 0
  /\ summary = <<"nofile">>

InitEnvIdle ==
  /\ SELECTED_INDICES = AllIndices
  /\ fileState = [s \in SceneIds |-> AllOkFiles]
  /\ diskOK = [s \in SceneIds |-> AllOkDisk]
  /\ faulty = [s \in SceneIds |-> FALSE]
  /\ elapsedEnv = [s \in SceneIds |-> 0]
  /\ outRootExists = FALSE

(***************************************************************************)
(* SpecMath: the formulas on small grids                                   *)
(***************************************************************************)
InitMath ==
  /\ \E sh \in Shapes :
       /\ gridA \in [Cells(sh) -> InputValues]
       /\ gridB \in [Cells(sh) -> InputValues]
  /\ gridOut = NoGrid
  /\ mathOp = "none"
  /\ InitEnvIdle /\ InitSceneLocals /\ InitMainIdle
  /\ pc = [s \in SceneIds |-> "idle"]
  /\ mainpc = "unit"
  /\ scene_folders = 0

ApplySafeDivide ==
  /\ mathOp = "none"
  /\ gridOut' = safe_divide(gridA, gridB)
  /\ mathOp' = "safe_divide"
  /\ UNCHANGED <<gridA, gridB, envVars, sceneVars, mainVars, writeLog>>

\* gridA is nir, gridB is red
ApplyNdvi ==
  /\ mathOp = "none"
  /\ gridOut' = calculate_ndvi(gridA, gridB)
  /\ mathOp' = "calculate_ndvi"
  /\ UNCHANGED <<gridA, gridB, envVars, sceneVars, mainVars, writeLog>>

\* gridA is nir, gridB is green
ApplyGci ==
  /\ mathOp = "none"
  /\ gridOut' = calculate_gci(gridA, gridB)
  /\ mathOp' = "calculate_gci"
  /\ UNCHANGED <<gridA, gridB, envVars, sceneVars, mainVars, writeLog>>

NextMath == ApplySafeDivide \/ ApplyNdvi \/ ApplyGci

SpecMath == InitMath /\ [][NextMath]_vars

(***************************************************************************)
(* SpecScene: process_scene on one scene                                   *)
(***************************************************************************)
InitScene ==
  /\ InitMathIdle /\ InitSceneLocals /\ InitMainIdle
  /\ SELECTED_INDICES \in SelectionOptions
  /\ \E fs \in FileStates : fileState = [s \in SceneIds |-> IF s = 1 THEN fs ELSE AllOkFiles]
  /\ \E d \in DiskStates : diskOK = [s \in SceneIds |-> IF s = 1 THEN d ELSE AllOkDisk]
  /\ faulty = [s \in SceneIds |-> FALSE]
  /\ \E e \in 0..MaxElapsed : elapsedEnv = [s \in SceneIds |-> IF s = 1 THEN e ELSE 0]
  /\ outRootExists = FALSE
  /\ pc = [s \in SceneIds |-> IF s = 1 THEN "start" ELSE "idle"]
  /\ mainpc = "unit"
  /\ scene_folders = 1

NextScene ==
  \E s \in SceneIds :
    SceneStart(s) \/ IndexSkip(s) \/ IndexRaise(s) \/ IndexSave(s) \/ SceneFinish(s)

SpecScene == InitScene /\ [][NextScene]_vars

(***************************************************************************)
(* The Run Batch script (lines 136-163) and save_summary                   *)
(***************************************************************************)
Scenes == 1..scene_folders
Settled(s) == pc[s] \in {"returned", "raised"}

\* all_results.insert(0, result): the newest row first
CollectPrepend(all, r) == <<r>> \o all

\* all_results.append(result)
CollectAppend(all, r) == Append(all, r)

\* if len(scene_folders) == 1: ... else: with ThreadPoolExecutor() ...
Dispatch ==
  /\ mainpc = "start"
  /\ IF scene_folders = 1
     THEN /\ mainpc' = "seq"
          /\ pc' = [pc EXCEPT ![1] = "start"]
     ELSE /\ mainpc' = IF scene_folders = 0 THEN "as_completed" ELSE "submit"
          /\ UNCHANGED pc
  /\ UNCHANGED <<ix, bands, profile, results, time_sec, computeArgs, saveProfile, raisedAt,
                 written, outRootExists, doneOrder, writeLog>>
  /\ UNCHANGED <<scene_folders, preFinished, collected, all_results, summaryCalls, summary>>
  /\ UNCHANGED <<mathVars, envVars>>

\* executor.submit(process_scene, ...) for the next folder of the dict
\* comprehension; the task may start at once
Submit ==
  /\ mainpc = "submit"
  /\ LET s == CHOOSE x \in Scenes : pc[x] = "idle" /\ \A y \in 1..(x - 1) : pc[y] # "idle"
     IN  /\ pc' = [pc EXCEPT ![s] = "start"]
         /\ mainpc' = IF s = scene_folders THEN "as_completed" ELSE "submit"
  /\ UNCHANGED <<ix, bands, profile, results, time_sec, computeArgs, saveProfile, raisedAt,
                 written, outRootExists, doneOrder, writeLog>>
  /\ UNCHANGED <<scene_folders, preFinished, collected, all_results, summaryCalls, summary>>
  /\ UNCHANGED <<mathVars, envVars>>

\* as_completed(futures) begins: under the futures' locks it sets aside the
\* futures that are already finished and installs a waiter for the others
AsCompletedStart ==
  /\ mainpc = "as_completed"
  /\ preFinished' = {s \in Scenes : Settled(s)}
  /\ mainpc' = "collect"
  /\ UNCHANGED <<scene_folders, collected, all_results, summaryCalls, summary>>
  /\ UNCHANGED <<mathVars, envVars, sceneVars, writeLog>>

\* the futures that finished after as_completed began, in the order in
\* which they finished: the waiter's list
RECURSIVE LaterFinished(_)
LaterFinished(order) ==
  IF order = <<>> THEN <<>>
  ELSE IF Head(order) \in preFinished THEN LaterFinished(Tail(order))
       ELSE <<Head(order)>> \o LaterFinished(Tail(order))

\* the futures as_completed may yield next: any of those set aside at the
\* beginning (a set, "yield from finished"); once these are exhausted, the
\* oldest entry of the waiter's list
NextYield ==
  IF preFinished \ collected # {} THEN preFinished \ collected
  ELSE LET later == SelectSeq(LaterFinished(doneOrder), LAMBDA x : x \notin collected)
       IN  IF later = <<>> THEN {} ELSE {Head(later)}

\* one iteration of "for future in as_completed(futures)": future.result()
\* returns the dict, which is appended, or re-raises, which is logged.
\* The pool's default size exceeds MaxScenes, so every submitted task runs
\* at once.
Collect(s) ==
  /\ mainpc = "collect"
  /\ s \in Scenes \ collected
  /\ s \in NextYield
  /\ collected' = collected \cup {s}
  /\ IF pc[s] = "returned"
     THEN /\ all_results' = CollectAppend(all_results, SceneResult(s))
          /\ writeLog' = writeLog \cup {ListWrite(MainThread)}
     ELSE UNCHANGED <<all_results, writeLog>>
  /\ UNCHANGED <<mainpc, scene_folders, preFinished, summaryCalls, summary>>
  /\ UNCHANGED <<mathVars, envVars, sceneVars>>

\* as_completed is exhausted and the with block is left
PoolExit ==
  /\ mainpc = "collect"
  /\ collected = Scenes
  /\ mainpc' = "summary"
  /\ UNCHANGED <<scene_folders, preFinished, collected, all_results, summaryCalls, summary>>
  /\ UNCHANGED <<mathVars, envVars, sceneVars, writeLog>>

\* line 146-147: the call of process_scene in the main thread returns
SeqReturn ==
  /\ mainpc = "seq"
  /\ pc[1] = "returned"
  /\ all_results' = CollectAppend(all_results, SceneResult(1))
  /\ writeLog' = writeLog \cup {ListWrite(MainThread)}
  /\ mainpc' = "summary"
  /\ UNCHANGED <<scene_folders, preFinished, collected, summaryCalls, summary>>
  /\ UNCHANGED <<mathVars, envVars, sceneVars>>

\* line 146: the call raises; nothing catches it and the script ends with a
\* traceback
SeqRaise ==
  /\ mainpc = "seq"
  /\ pc[1] = "raised"
  /\ mainpc' = "aborted"
  /\ UNCHANGED <<scene_folders, preFinished, collected, all_results, summaryCalls, summary>>
  /\ UNCHANGED <<mathVars, envVars, sceneVars, writeLog>>

\* line 127: the columns of the summary
fieldnames == {"scene", "NDVI", "SAVI", "EVI", "ARVI", "NBR", "NBWI", "NDBI", "GCI",
               "time_sec"}

\* the keys of the dict that process_scene returns: "scene" (line 86), one
\* per index written at lines 101-116, "time_sec" (line 121)
RowKeys(r) == {"scene", "time_sec"} \cup {i \in DOMAIN r.index : r.index[i] # "absent"}

\* DictWriter.writerow raises ValueError for a dict with a key outside
\* fieldnames
Rejected(r) == ~(RowKeys(r) \subseteq fieldnames)

\* writer.writerows(results): the rows before the first rejected one
RECURSIVE RowsWritten(_)
RowsWritten(rows) ==
  IF rows = <<>> \/ Rejected(Head(rows)) THEN <<>>
  ELSE <<Head(rows)>> \o RowsWritten(Tail(rows))

\* save_summary(all_results, OUTPUT_ROOT): open(csv_path, "w") raises
\* FileNotFoundError when OUTPUT_ROOT does not exist; only os.makedirs in
\* save_index ever creates it
save_summary ==
  /\ mainpc = "summary"
  /\ summaryCalls' = summaryCalls + 1
  /\ IF outRootExists
     THEN /\ summary' = RowsWritten(all_results)
          /\ mainpc' = IF \E k \in DOMAIN all_results : Rejected(all_results[k])
                       THEN "aborted" ELSE "done"
     ELSE /\ summary' = summary
          /\ mainpc' = "aborted"
  /\ UNCHANGED <<scene_folders, preFinished, collected, all_results>>
  /\ UNCHANGED <<mathVars, envVars, sceneVars, writeLog>>

(***************************************************************************)
(* SpecBatch: the whole script                                             *)
(***************************************************************************)
EmptyDir == [b \in BandNames |-> "missing"]
CorruptB2 == [b \in BandNames |-> IF b = "B2" THEN "corrupt" ELSE "ok"]
\* the scene folders of a batch: complete, empty, or with an unreadable B2.tif
BatchFileStates == {AllOkFiles, EmptyDir, CorruptB2}
NdviDiskFault == [i \in IndexNames |-> i # "NDVI"]
BatchDiskStates == {AllOkDisk, NdviDiskFault}

InitBatch ==
  /\ InitMathIdle /\ InitSceneLocals /\ InitMainIdle
  /\ SELECTED_INDICES = AllIndices
  /\ scene_folders \in 0..MaxScenes
  /\ faulty \in [SceneIds -> BOOLEAN]
  /\ fileState \in [SceneIds -> BatchFileStates]
  /\ diskOK \in [SceneIds -> BatchDiskStates]
  /\ \A s \in SceneIds :
       (s > scene_folders \/ faulty[s]) =>
          /\ fileState[s] = AllOkFiles /\ diskOK[s] = AllOkDisk
          /\ s > scene_folders => ~faulty[s]
  /\ elapsedEnv = [s \in SceneIds |-> 0]
  /\ outRootExists \in BOOLEAN
  /\ pc = [s \in SceneIds |-> "idle"]
  /\ mainpc = "start"

NextBatch ==
  \/ Dispatch
  \/ Submit
  \/ AsCompletedStart
  \/ \E s \in SceneIds : Collect(s)
  \/ PoolExit
  \/ SeqReturn
  \/ SeqRaise
  \/ save_summary
  \/ \E s \in SceneIds :
       SceneStart(s) \/ IndexSkip(s) \/ IndexRaise(s) \/ IndexSave(s) \/ SceneFinish(s)

SpecBatch == InitBatch /\ [][NextBatch]_vars

(***************************************************************************)
(* Claims about index_calculations.py (SpecMath)                           *)
(***************************************************************************)
IsZero(x) == IsFin(x) /\ x.n = 0
\* the mathematical quotient of two finite values, the divisor not zero
Quotient(x, y) == Fin(x.n * y.d, x.d * y.n)

\* C1: safe_divide(a, b) is exactly 0 wherever b is 0, whether a is 0 or not,
\* and the exact quotient a/b wherever b is not 0; no position of the result
\* is NaN or infinite.
C1_SafeDivideZeroOrQuotient ==
  mathOp = "safe_divide" =>
    \A p \in DOMAIN gridOut :
      /\ IsFin(gridOut[p])
      /\ IsZero(gridB[p]) => gridOut[p] = Fin(0, 1)
      /\ ~IsZero(gridB[p]) => gridOut[p] = Quotient(gridA[p], gridB[p])

\* C10: calculate_gci(nir, green) is exactly -1 wherever green is 0, for
\* every value of nir there.
C10_GciMinusOneOnZeroGreen ==
  mathOp = "calculate_gci" =>
    \A p \in DOMAIN gridOut : IsZero(gridB[p]) => gridOut[p] = Fin(-1, 1)

\* (nir - red) / (nir + red) of two finite values as a fraction, the sum
\* not zero
NormalizedDifference(x, y) == Fin(x.n * y.d - y.n * x.d, x.n * y.d + y.n * x.d)
SumIsZero(x, y) == x.n * y.d + y.n * x.d = 0

\* C11: calculate_ndvi(nir, red) is exactly 0, not NaN, wherever nir and
\* red are both 0, and (nir - red) / (nir + red) wherever nir + red is not 0.
C11_NdviZeroOrNormalizedDifference ==
  mathOp = "calculate_ndvi" =>
    \A p \in DOMAIN gridOut :
      /\ (IsZero(gridA[p]) /\ IsZero(gridB[p])) => gridOut[p] = Fin(0, 1)
      /\ ~SumIsZero(gridA[p], gridB[p]) =>
           gridOut[p] = NormalizedDifference(gridA[p], gridB[p])

\* a grid with a 0/0 position and a position with a non-zero quotient
C11_Witness ==
  /\ mathOp = "calculate_ndvi"
  /\ \E p \in DOMAIN gridOut :
       IsZero(gridA[p]) /\ IsZero(gridB[p]) /\ gridOut[p] = Fin(0, 1)
  /\ \E p \in DOMAIN gridOut :
       ~SumIsZero(gridA[p], gridB[p]) /\ IsFin(gridOut[p]) /\ gridOut[p].n # 0

(***************************************************************************)
(* Claims about process_scene (SpecScene)                                  *)
(***************************************************************************)
Pos(i) == CHOOSE k \in DOMAIN IndexOrder : IndexOrder[k] = i
Computed(s, i) == computeArgs[s][i] # <<>>
SaveCalled(s, i) == saveProfile[s][i] # "nocall"
\* the statement of index i has been executed and control went on
Passed(s, i) == pc[s] \in {"compute", "finish", "returned"} /\ ix[s] > Pos(i)
Loaded(s, b) == fileState[s][b] = "ok"

\* the bands each formula gets under NIR=B5, RED=B4, BLUE=B2, GREEN=B3,
\* SWIR1=B6, SWIR2=B7, as C3 lists them
MappedArgs(i) ==
  CASE i = "NDVI" -> <<"B5", "B4">>
    [] i = "SAVI" -> <<"B5", "B4">>
    [] i = "EVI"  -> <<"B5", "B4", "B2">>
    [] i = "ARVI" -> <<"B5", "B4", "B2">>
    [] i = "NBR"  -> <<"B5", "B7">>
    [] i = "NBWI" -> <<"B3", "B5">>
    [] i = "NDBI" -> <<"B6", "B5">>
    [] i = "GCI"  -> <<"B5", "B3">>
MappedBands(i) == {MappedArgs(i)[k] : k \in DOMAIN MappedArgs(i)}

\* C3: an index is attempted iff it is requested and all bands its formula
\* needs under the role mapping are in the BandSet, and the formula is handed
\* exactly those bands in those roles.
C3_AttemptIffMappedBands ==
  \A s \in SceneIds : \A i \in IndexNames :
    /\ Computed(s, i) =>
         /\ computeArgs[s][i] = MappedArgs(i)
         /\ i \in SELECTED_INDICES
         /\ MappedBands(i) \subseteq Keys(bands[s])
    /\ Passed(s, i) =>
         (Computed(s, i) <=>
            (i \in SELECTED_INDICES /\ MappedBands(i) \subseteq Keys(bands[s])))

\* C4: when a band file exists but cannot be loaded, the scene still computes
\* and persists every requested index whose required bands all loaded, and
\* gives it an entry in the SceneResult.
C4_LoadFailureKeepsOtherIndices ==
  \A s \in SceneIds :
    (pc[s] = "returned" /\ \E b \in BandNames : fileState[s][b] = "corrupt") =>
      \A i \in SELECTED_INDICES :
        (\A b \in RequiredBands(i) : Loaded(s, b)) =>
          /\ Computed(s, i)
          /\ SaveCalled(s, i)
          /\ results[s][i] # "absent"

\* C5: a scene without band B2 never hands EVI to save_index and has no EVI
\* entry (or a false one), and NDVI and SAVI are still computed and
\* persisted when requested with B4 and B5 present.
C5_NoB2SkipsEviKeepsNdviSavi ==
  \A s \in SceneIds :
    ~Loaded(s, "B2") =>
      /\ ~SaveCalled(s, "EVI")
      /\ results[s]["EVI"] \in {"absent", "False"}
      /\ pc[s] = "returned" =>
           \A i \in {"NDVI", "SAVI"} :
             (i \in SELECTED_INDICES /\ Loaded(s, "B4") /\ Loaded(s, "B5")) =>
               /\ Computed(s, i)
               /\ SaveCalled(s, i)
               /\ diskOK[s][i] => (results[s][i] = "True" /\ <<s, i>> \in written)

\* the formula of the statement at position k raises on the loaded bands
RaisesAt(s, k) ==
  /\ Guard(s, IndexOrder[k])
  /\ ComputeRaises(s, IndexOrder[k])
SaveFailed(s, i) ==
  SaveCalled(s, i) /\ (saveProfile[s][i] = "None" \/ ~diskOK[s][i])

RECURSIVE SeqTry(_, _, _, _, _)
SeqTry(s, k, bnds, prof, res) ==
  IF k > Len(IndexOrder) THEN res
  ELSE LET i == IndexOrder[k]
       IN  IF ~(RequiredBands(i) \subseteq Keys(bnds) /\ i \in SELECTED_INDICES)
           THEN SeqTry(s, k + 1, bnds, prof, res)
           ELSE IF \E b \in ArgBands(i) : bnds[b] = "None"
           THEN res
           ELSE SeqTry(s, k + 1, bnds, prof,
                       [res EXCEPT ![i] = save_index(prof, diskOK[s][i])])

\* process_scene on scene s alone, nothing else running
SeqEntries(s) ==
  LET r == LoadLoop(fileState[s], 1, NoBands, "None")
  IN  SeqTry(s, 1, r[1], r[2], NoResults)

\* a record without its elapsed time
Row(s, entries) == [scene |-> s, index |-> entries]
RowsOf(all) == {Row(all[k].scene, all[k].index) : k \in DOMAIN all}
SequentialRows == {Row(s, SeqEntries(s)) : s \in {x \in Scenes : ~faulty[x]}}
PoolPath == scene_folders # 1
Ended == mainpc \in {"done", "aborted"}

\* C2: the run always ends normally with the summary written; in particular
\* save_summary succeeds when no index was ever persisted under the output
\* root, the summary then holding the (empty or all-false) rows.
C2_SummaryAlwaysWritten ==
  (scene_folders > 0 /\ summaryCalls > 0) => (mainpc = "done" /\ summary = all_results)

\* C7: under the worker pool, whatever the interleaving and the completion
\* order, the records collected are those of processing the scenes one
\* after another, one record per scene.
C7_PoolRowsEqualSequentialRows ==
  (PoolPath /\ mainpc \in {"summary", "done", "aborted"}) =>
    /\ RowsOf(all_results) = SequentialRows
    /\ Len(all_results) = Cardinality(SequentialRows)

\* two scenes with different records, collected against submission order
C7_Witness ==
  /\ PoolPath /\ mainpc = "done"
  /\ Len(all_results) = 2
  /\ all_results[1].scene = 2 /\ all_results[2].scene = 1
  /\ all_results[1].index # all_results[2].index
  /\ \E i \in IndexNames : all_results[1].index[i] = "True"

\* C8: when process_scene raises for a scene, on either path the scheduler
\* goes on: every other scene is collected and save_summary is called.
C8_SceneExceptionCaughtOnBothPaths ==
  (Ended /\ \E s \in Scenes : pc[s] = "raised") =>
    /\ summaryCalls = 1
    /\ {all_results[k].scene : k \in DOMAIN all_results} = {s \in Scenes : pc[s] = "returned"}
    /\ \A s \in Scenes : Settled(s)

\* C9: in every run the summary is written exactly once, after every
\* submitted scene task has settled; save_summary never starts while a task
\* is running and is never called twice.
C9_SummaryExactlyOnceAfterAllSettled ==
  /\ summaryCalls <= 1
  /\ summaryCalls = 1 => \A s \in SceneIds : pc[s] # "idle" => Settled(s)
  /\ Ended => (summaryCalls = 1 /\ summary # <<"nofile">>)

(***************************************************************************)
(* Claims about the load step, the except block and the result dict        *)
(* (SpecScene)                                                             *)
(***************************************************************************)
AfterLoad(s) == pc[s] \in {"compute", "finish", "returned"}

\* C13: at the end of the load step the band dict has a key only for a band
\* that loaded successfully: a missing band and a band that failed to load
\* are both absent, and no key maps to None.
C13_BandSetHoldsOnlyLoadedBands ==
  \A s \in SceneIds : AfterLoad(s) =>
    \A b \in BandNames :
      /\ bands[s][b] # "absent" => Loaded(s, b)
      /\ bands[s][b] # "None"

\* C14: the profile handed to save_index is the profile of a band of the
\* scene that loaded successfully; while some band of the scene loaded, the
\* scene has a profile, whatever other band failed to load.
C14_ProfileFromALoadedBand ==
  \A s \in SceneIds : AfterLoad(s) =>
    /\ (\E b \in BandNames : Loaded(s, b)) =>
          (profile[s] \in BandNames /\ Loaded(s, profile[s]))
    /\ \A i \in IndexNames : SaveCalled(s, i) =>
          (saveProfile[s][i] \in BandNames /\ Loaded(s, saveProfile[s][i]))

\* C15: once a formula has raised inside the try block, process_scene goes on
\* to its end and returns: the error does not leave the function, the
\* entries recorded before the error stay as they were (and none is added),
\* and the record returned carries the scene and the elapsed time.
C15_ComputeErrorStillReturnsResult ==
  [][\A s \in SceneIds : raisedAt'[s] # "none" =>
        /\ pc'[s] \in {"finish", "returned"}
        /\ results'[s] = results[s]
        /\ pc'[s] = "returned" =>
             /\ time_sec'[s] = elapsedEnv[s]
             /\ [scene |-> s, index |-> results'[s], time_sec |-> time_sec'[s]].scene = s]_vars

\* a formula raised after an earlier index had been computed and saved
C15_Witness ==
  \E s \in SceneIds : \E i \in IndexNames :
    /\ pc[s] = "returned"
    /\ raisedAt[s] # "none"
    /\ Pos(i) < Pos(raisedAt[s])
    /\ results[s][i] = "True"
    /\ SceneResult(s).time_sec = elapsedEnv[s]

\* C18: the indices are attempted in the order NDVI, SAVI, EVI, ARVI, NBR,
\* NBWI, NDBI, GCI whatever the request; once a formula has raised, no later
\* index is attempted, so it has no entry even when it was requested and its
\* bands are present.
C18_FixedOrderAndNothingAfterARaise ==
  [][\A s \in SceneIds :
        /\ \A j \in IndexNames :
             (computeArgs[s][j] = <<>> /\ computeArgs'[s][j] # <<>>) =>
                \A i \in IndexNames : computeArgs[s][i] # <<>> => Pos(i) < Pos(j)
        /\ raisedAt'[s] # "none" =>
             \A j \in IndexNames : Pos(j) > Pos(raisedAt'[s]) =>
                /\ computeArgs'[s][j] = <<>>
                /\ saveProfile'[s][j] = "nocall"
                /\ results'[s][j] = "absent"]_vars

\* a formula raised and a later index, requested and with all its bands
\* loaded, has no entry
C18_Witness ==
  \E s \in SceneIds : \E j \in IndexNames :
    /\ pc[s] = "returned"
    /\ raisedAt[s] # "none"
    /\ \E i \in IndexNames : Pos(i) < Pos(raisedAt[s]) /\ Computed(s, i)
    /\ Pos(j) > Pos(raisedAt[s])
    /\ j \in SELECTED_INDICES
    /\ \A b \in RequiredBands(j) : Loaded(s, b)
    /\ results[s][j] = "absent"

\* C19: the keys of the record of a scene lie within scene, the eight index
\* names and time_sec; scene and time_sec are always among them; an index
\* name is among them only if it was requested; so save_summary rejects no
\* row.
C19_RowKeysWithinFieldnames ==
  \A s \in SceneIds : AfterLoad(s) =>
    /\ RowKeys(SceneResult(s)) \subseteq fieldnames
    /\ {"scene", "time_sec"} \subseteq RowKeys(SceneResult(s))
    /\ RowKeys(SceneResult(s)) \cap IndexNames \subseteq SELECTED_INDICES
    /\ ~Rejected(SceneResult(s))

\* a record with an entry, of a scene where an index that was not requested
\* has all its bands and no entry
C19_Witness ==
  \E s \in SceneIds : \E i \in IndexNames : \E j \in IndexNames :
    /\ pc[s] = "returned"
    /\ results[s][i] = "True"
    /\ j \notin SELECTED_INDICES
    /\ \A b \in RequiredBands(j) : Loaded(s, b)
    /\ j \notin RowKeys(SceneResult(s))

(***************************************************************************)
(* Claims about the batch (SpecBatch), continued                           *)
(***************************************************************************)
\* C12: a scene folder with none of the six band files gives a record with
\* no index entry and a non-negative elapsed time, and processing it, alone
\* or with other scenes, does not abort the batch.
C12_EmptySceneDoesNotAbortBatch ==
  \A s \in Scenes : (fileState[s] = EmptyDir /\ ~faulty[s]) =>
    /\ pc[s] = "returned" => (results[s] = NoResults /\ time_sec[s] >= 0)
    /\ mainpc # "aborted"

\* the writes of two different threads to one resource
SameResource(e1, e2) ==
  e1.kind = e2.kind /\ e1.scene = e2.scene /\ e1.index = e2.index

RowScenes(all) == [k \in DOMAIN all |-> all[k].scene]
Returned(s) == pc[s] = "returned"
OneRowPerReturnedScene ==
  /\ {RowScenes(all_results)[k] : k \in DOMAIN all_results} = {s \in Scenes : Returned(s)}
  /\ Len(all_results) = Cardinality({s \in Scenes : Returned(s)})
AtSummary == mainpc \in {"summary", "done", "aborted"}

====
